---------------------------- MODULE Spec2Model ----------------------------
(***************************************************************************)
(* TextSwipe content generation pipeline.                                  *)
(*                                                                         *)
(* Server side: the Express handlers of server/routes.ts calling           *)
(* generateLearningSnippets of server/openai.ts (module-level snippetCache,*)
(* OpenRouter fetch, JSON decoding, getFallbackContent).                   *)
(* Client side: generateMoreContent of SwipeContainer.tsx (the feed's      *)
(* allSnippets list and its duplicate filter).                             *)
(*                                                                         *)
(* Text is modelled as a sequence of one-character strings, so that trim,  *)
(* toLowerCase, includes and the route's character filter are computed.    *)
(* A snippet is a record [kind, topic, i, v]: kind/topic/i name the text   *)
(* (provider text i, fallback template i for a topic, ...) and v tells the *)
(* spelling (0: lower-case trimmed, 1: same text with other case/padding). *)
(***************************************************************************)
EXTENDS Integers, Sequences, FiniteSets, TLC

(***************************************************************************)
(* Bounds of the model.                                                    *)
(***************************************************************************)
NumProcs == 2        \* requests that may wait for the provider at a time
PoolSize == 1        \* distinct texts the provider may answer with
MaxCards == 2        \* longest card list of one provider answer
MaxRounds == 3       \* generateMoreContent rounds of one feed

(***************************************************************************)
(* Program constants.                                                      *)
(***************************************************************************)
DefaultCount == 5        \* zod default of count
MinCount == 1
MaxCount == 10
MaxTopicLen == 200
GenerateCount == 10      \* count passed by POST /api/generate
MaxOptions == 4          \* parsed.options.slice(0, 4)
NumFallbackSnippets == 10
ClientCount == 5         \* count sent by the feed, and size of its fallback
RateLimited == 429

Procs == 1..NumProcs

(***************************************************************************)
(* Text helpers (JavaScript String methods on character sequences).        *)
(***************************************************************************)
UpperLetters ==
  << "A", "B", "C", "D", "E", "F", "G", "H", "I", "J", "K", "L", "M",
     "N", "O", "P", "Q", "R", "S", "T", "U", "V", "W", "X", "Y", "Z" >>

LowerLetters ==
  << "a", "b", "c", "d", "e", "f", "g", "h", "i", "j", "k", "l", "m",
     "n", "o", "p", "q", "r", "s", "t", "u", "v", "w", "x", "y", "z" >>

Digits == {"0", "1", "2", "3", "4", "5", "6", "7", "8", "9"}

LowerOf(c) ==
  IF \E j \in 1..26 : UpperLetters[j] = c
  THEN LowerLetters[CHOOSE j \in 1..26 : UpperLetters[j] = c]
  ELSE c

ToLowerCase(s) == [j \in 1..Len(s) |-> LowerOf(s[j])]

IsSpace(c) == c \in {" ", "\t", "\n"}

RECURSIVE TrimStart(_)
TrimStart(s) ==
  IF s = <<>> THEN <<>>
  ELSE IF IsSpace(Head(s)) THEN TrimStart(Tail(s)) ELSE s

RECURSIVE TrimEnd(_)
TrimEnd(s) ==
  IF s = <<>> THEN <<>>
  ELSE IF IsSpace(s[Len(s)]) THEN TrimEnd(SubSeq(s, 1, Len(s) - 1)) ELSE s

Trim(s) == TrimEnd(TrimStart(s))

\* s.includes(w)
Includes(s, w) ==
  \E j \in 0..(Len(s) - Len(w)) : SubSeq(s, j + 1, j + Len(w)) = w

\* the regular expression class \w
WordChars ==
  {UpperLetters[j] : j \in 1..26} \cup {LowerLetters[j] : j \in 1..26}
    \cup Digits \cup {"_"}

\* topic.trim().replace(/[^\w\s\-]/gi, '')
SanitizeTopic(s) ==
  SelectSeq(Trim(s), LAMBDA c : c \in WordChars \/ IsSpace(c) \/ c = "-")

\* Array.prototype.slice(0, n) for n >= 0
Slice0(s, n) == SubSeq(s, 1, IF n < Len(s) THEN n ELSE Len(s))

(***************************************************************************)
(* Topics used as request inputs.                                          *)
(***************************************************************************)
TopicEmpty == <<>>
TopicBlank == << " " >>
TopicAi == << "a", "i" >>
TopicAiBang == << "a", "i", "!" >>

TopicInputs == {TopicEmpty, TopicBlank, TopicAi, TopicAiBang}
(***************************************************************************)
(* Snippets and options.                                                   *)
(***************************************************************************)
Snip(kind, topic, i, v) == [kind |-> kind, topic |-> topic, i |-> i, v |-> v]

\* snippet.toLowerCase().trim(): every spelling of a text has one normal form
Normalize(s) == [s EXCEPT !.v = 0]

\* texts the provider answers with, in their lower-case spelling
ProviderPool == {Snip("p", <<>>, i, 0) : i \in 1..PoolSize}

RECURSIVE ListsOver(_, _)
ListsOver(S, n) ==
  IF n = 0 THEN {<<>>}
  ELSE LET shorter == ListsOver(S, n - 1)
       IN  shorter \cup {Append(l, x) : l \in {m \in shorter : Len(m) = n - 1}, x \in S}

CardLists == ListsOver(ProviderPool, MaxCards)

ProviderOptions(n) == [j \in 1..n |-> [kind |-> "popt", cat |-> "provider", i |-> j]]

(***************************************************************************)
(* getFallbackContent (server/openai.ts).                                  *)
(***************************************************************************)
\* the ten templates, each with the topic spliced in (capitalised text)
FallbackSnippets(topic) ==
  [j \in 1..NumFallbackSnippets |-> Snip("fb", topic, j, 1)]

\* the keywords of topicLower.includes(...)
Keywords ==
  [science |-> << "s", "c", "i", "e", "n", "c", "e" >>,
   biology |-> << "b", "i", "o", "l", "o", "g", "y" >>,
   neuroscience |-> << "n", "e", "u", "r", "o", "s", "c", "i", "e", "n", "c", "e" >>,
   physics |-> << "p", "h", "y", "s", "i", "c", "s" >>,
   quantum |-> << "q", "u", "a", "n", "t", "u", "m" >>,
   ai |-> << "a", "i" >>,
   artificial |-> << "a", "r", "t", "i", "f", "i", "c", "i", "a", "l" >>,
   machine |-> << "m", "a", "c", "h", "i", "n", "e" >>]

\* the keyword match with the ai family tried before the physics family
OptionCategoryAiFirst(topic) ==
  LET topicLower == ToLowerCase(topic)
  IN  IF Includes(topicLower, Keywords.science) \/ Includes(topicLower, Keywords.biology)
         \/ Includes(topicLower, Keywords.neuroscience)
      THEN "science"
      ELSE IF Includes(topicLower, Keywords.ai) \/ Includes(topicLower, Keywords.artificial)
              \/ Includes(topicLower, Keywords.machine)
      THEN "ai"
      ELSE IF Includes(topicLower, Keywords.physics) \/ Includes(topicLower, Keywords.quantum)
      THEN "physics"
      ELSE "generic"

OptionCategory(topic) ==
  LET topicLower == ToLowerCase(topic)
  IN  IF Includes(topicLower, Keywords.science) \/ Includes(topicLower, Keywords.biology)
         \/ Includes(topicLower, Keywords.neuroscience)
      THEN "science"
      ELSE IF Includes(topicLower, Keywords.physics) \/ Includes(topicLower, Keywords.quantum)
      THEN "physics"
      ELSE IF Includes(topicLower, Keywords.ai) \/ Includes(topicLower, Keywords.artificial)
              \/ Includes(topicLower, Keywords.machine)
      THEN "ai"
      ELSE "generic"

FallbackOptions(topic) ==
  [j \in 1..4 |-> [kind |-> "fbopt", cat |-> OptionCategory(topic), i |-> j]]

\* generateOptions as the callee sees it: the rendering of the third argument
\* ("false" is the default taken when the argument is undefined)
Truthy(opt) == opt # "false"

getFallbackContent(topic, count, opt) ==
  [ snippets   |-> Slice0(FallbackSnippets(topic), count),
    isArray    |-> TRUE,
    options    |-> IF Truthy(opt) THEN FallbackOptions(topic) ELSE <<>>,
    hasOptions |-> Truthy(opt) ]

\* getFallbackOptions-style list written inline by the outer catch block
IntroOptions(topic) ==
  [j \in 1..4 |-> [kind |-> "fbopt", cat |-> "intro", i |-> j]]

\* outer catch of generateLearningSnippets
CatchFallback(topic, count, opt) ==
  LET fallbackResult == getFallbackContent(topic, count, opt)
  IN  IF Truthy(opt) /\ (~fallbackResult.hasOptions \/ Len(fallbackResult.options) = 0)
      THEN [fallbackResult EXCEPT !.options = IntroOptions(topic), !.hasOptions = TRUE]
      ELSE fallbackResult

(***************************************************************************)
(* State.                                                                  *)
(***************************************************************************)
VARIABLES
  snippetCache,   \* server/openai.ts: Map from cache key to {snippets, options}
  apiKeySet,      \* whether process.env.OPENROUTER_API_KEY is set
  deployed,       \* which registerRoutes of server/routes.ts the server runs
  req,            \* the requests awaiting the provider's answer, oldest first
  last,           \* the request answered most recently, with its response
  ttlElapsed,     \* history: keys whose entry was written more than one TTL ago
  allSnippets,    \* SwipeContainer: the feed's list of cards
  isLoading,      \* SwipeContainer: a generateMoreContent call is in flight
  rounds,         \* history: generateMoreContent calls finished by the feed
  viewerSnippets, \* per viewer: allSnippets of that viewer's SwipeContainer
  fn,             \* the library function applied last, with arguments and value
  hits,           \* express-rate-limit: per IP, requests counted in the window
  reached,        \* history: per IP, generation requests handled in the window
  sent,           \* the response the express app sent last, with its request
  db,             \* chat routes: whether the database connection exists
  openaiModule,   \* chat routes: the module that '../openai' resolves to
  chats,          \* table chats: owner (userId) of each chat id
  chatCards,      \* table chat_cards: the rows, oldest first
  chatSent,       \* the response the chat routes sent last, with its request
  component,      \* which source of SwipeContainer the mounted feed runs
  currentIndex,   \* SwipeContainer: index of the card shown
  showOptions,    \* SwipeContainer (part_001): the options card is shown
  currentOptions, \* SwipeContainer (part_001): the options of that card
  inFlight,       \* the feed's content requests awaiting their response
  seenLength,     \* allSnippets.length in the closure of generateMoreContent
  currentView,    \* FocusFeed: "input", "loading" or "learning"
  currentTopic,   \* FocusFeed: the topic shown
  learningSnippets, \* FocusFeed: the snippets handed to SwipeContainer
  fetches         \* FocusFeed: its content fetches awaiting their response

serverVars == <<snippetCache, apiKeySet, deployed, req, last, ttlElapsed>>
feedVars == <<allSnippets, isLoading, rounds>>
appVars == <<hits, reached, sent>>
chatVars == <<db, openaiModule, chats, chatCards, chatSent>>
swipeVars ==
  <<component, currentIndex, showOptions, currentOptions, inFlight, seenLength>>
viewVars == <<currentView, currentTopic, learningSnippets, fetches>>
clientVars == <<swipeVars, viewVars>>
otherVars == <<viewerSnippets, fn, appVars, chatVars, clientVars>>
vars ==
  <<snippetCache, apiKeySet, deployed, req, last, ttlElapsed,
    allSnippets, isLoading, rounds, viewerSnippets, fn, appVars, chatVars,
    clientVars>>

(***************************************************************************)
(* What the provider can answer to one fetch.                              *)
(***************************************************************************)
\* the characters of a JSON string given where an array was expected
StringPayload == [j \in 1..(MaxCards + 1) |-> Snip("ch", <<>>, j, 0)]

\* the longest answer made of the first text only
FullList == [j \in 1..MaxCards |-> Snip("p", <<>>, 1, 0)]

\* a decoded JSON object: cards and snippets are "array", "absent", or a truthy
\* value of another type; options (one more than are kept) come with FullList
ObjectAnswers ==
  {[k |-> "object", cards |-> "array", snippets |-> "absent", list |-> l,
    hasOpts |-> FALSE, nopts |-> 0] : l \in CardLists}
  \cup {[k |-> "object", cards |-> "array", snippets |-> "absent", list |-> FullList,
         hasOpts |-> TRUE, nopts |-> MaxOptions + 1]}
  \cup {[k |-> "object", cards |-> "absent", snippets |-> "array", list |-> l,
         hasOpts |-> FALSE, nopts |-> 0] : l \in CardLists}
  \cup {[k |-> "object", cards |-> "other", snippets |-> "absent",
         list |-> StringPayload, hasOpts |-> FALSE, nopts |-> 0]}
  \cup {[k |-> "object", cards |-> "absent", snippets |-> sn,
         list |-> StringPayload, hasOpts |-> FALSE, nopts |-> 0] :
          sn \in {"absent", "string", "other"}}

ProviderAnswers ==
  {[k |-> "reject"], [k |-> "nocontent"], [k |-> "unparseable"]}
  \cup {[k |-> "http", status |-> st, jsonBody |-> b] :
          st \in {RateLimited, 500}, b \in BOOLEAN}
  \cup ObjectAnswers

(***************************************************************************)
(* generateLearningSnippets (server/openai.ts).                            *)
(***************************************************************************)
\* `${topic}:${count}:${generateOptions}`
CacheKey(topic, count, opt) == <<topic, count, opt>>

\* a lookup that never finds the entry
CacheHasNever(key) == FALSE

CacheHas(key) == key \in DOMAIN snippetCache

\* the decoded list kept whole
TruncateNone(list, count) == list

\* .slice(0, count) of the decoded cards or snippets
Truncate(list, count) == Slice0(list, count)

\* the decoded options kept whole
TruncateOptionsNone(opts) == opts

\* parsed.options.slice(0, 4)
TruncateOptions(opts) == Slice0(opts, MaxOptions)

\* decoding of the parsed object and the inner catch block
ParseAnswer(o, topic, count, opt) ==
  LET fallbackContent == getFallbackContent(topic, count, opt)
      failed == [ snippets   |-> fallbackContent.snippets,
                  isArray    |-> TRUE,
                  options    |-> IF Truthy(opt) THEN fallbackContent.options ELSE <<>>,
                  hasOptions |-> TRUE ]
  IN  IF o.cards # "absent"
      THEN IF o.cards = "array"
           THEN [ snippets   |-> Truncate(o.list, count),
                  isArray    |-> TRUE,
                  options    |-> IF o.hasOpts
                                 THEN TruncateOptions(ProviderOptions(o.nopts))
                                 ELSE <<>>,
                  hasOptions |-> TRUE ]
           ELSE failed
      ELSE IF o.snippets # "absent"
      THEN IF o.snippets = "array"
           THEN [ snippets |-> Truncate(o.list, count), isArray |-> TRUE,
                  options |-> <<>>, hasOptions |-> TRUE ]
           ELSE IF o.snippets = "string"
           THEN [ snippets |-> Truncate(o.list, count), isArray |-> FALSE,
                  options |-> <<>>, hasOptions |-> TRUE ]
           ELSE failed
      ELSE failed

\* the synchronous part of the call, up to the await of fetch
BeginCall(topic, count, opt) ==
  IF CacheHas(CacheKey(topic, count, opt))
  THEN [act |-> "return", result |-> snippetCache[CacheKey(topic, count, opt)]]
  ELSE IF ~apiKeySet
  THEN [act |-> "return", result |-> getFallbackContent(topic, count, opt)]
  ELSE IF topic = <<>> \/ Trim(topic) = <<>>
  THEN [act |-> "return", result |-> CatchFallback(topic, count, opt)]
  ELSE [act |-> "fetch"]

\* whether the continuation after the fetch reaches snippetCache.set
WritesCache(o) == o.k = "object"

\* the continuation after the fetch settles with answer o
FinishCall(o, topic, count, opt) ==
  IF o.k = "reject" THEN CatchFallback(topic, count, opt)
  ELSE IF o.k = "http"
  THEN IF ~o.jsonBody THEN CatchFallback(topic, count, opt)
       ELSE IF o.status = RateLimited THEN getFallbackContent(topic, count, opt)
       ELSE CatchFallback(topic, count, opt)
  ELSE IF o.k \in {"nocontent", "unparseable"}
  THEN getFallbackContent(topic, count, opt)
  ELSE ParseAnswer(o, topic, count, opt)

(***************************************************************************)
(* JSON text (server/openai.ts: sanitizeAndValidateJson, JSON.parse and    *)
(* the decoding of the parsed object).  Provider content is a sequence of  *)
(* characters; a decoded JSON value is a record tagged by its type t.      *)
(***************************************************************************)
Quote == "\""
Backslash == "\\"

\* the first "{" and the last "}" of content (0 when there is none)
RECURSIVE FirstIndexOf(_, _, _)
FirstIndexOf(s, c, i) ==
  IF i > Len(s) THEN 0
  ELSE IF s[i] = c THEN i ELSE FirstIndexOf(s, c, i + 1)

RECURSIVE LastIndexOf(_, _, _)
LastIndexOf(s, c, i) ==
  IF i < 1 THEN 0
  ELSE IF s[i] = c THEN i ELSE LastIndexOf(s, c, i - 1)

\* content.match(/\{[\s\S]*\}/): the greedy match runs from the first "{" to
\* the last "}" after it
JsonMatch(content) ==
  LET a == FirstIndexOf(content, "{", 1)
      b == LastIndexOf(content, "}", Len(content))
  IN  IF a > 0 /\ b > a
      THEN [found |-> TRUE, text |-> SubSeq(content, a, b)]
      ELSE [found |-> FALSE, text |-> <<>>]

\* the loop over potentialJson: braceCount when every character is consumed
RECURSIVE BraceCount(_, _, _, _, _)
BraceCount(s, i, braceCount, inString, prevChar) ==
  IF i > Len(s) THEN braceCount
  ELSE LET char == s[i]
           nowInString == IF char = Quote /\ prevChar # Backslash
                          THEN ~inString ELSE inString
           delta == IF nowInString THEN 0
                    ELSE IF char = "{" THEN 1
                    ELSE IF char = "}" THEN -1 ELSE 0
       IN  BraceCount(s, i + 1, braceCount + delta, nowInString, char)

RECURSIVE SkipWs(_, _)
SkipWs(s, i) ==
  IF i <= Len(s) /\ s[i] \in {" ", "\t", "\n", "\r"} THEN SkipWs(s, i + 1) ELSE i

ParseFail == [ok |-> FALSE]
ParseOk(val, next) == [ok |-> TRUE, val |-> val, next |-> next]

Escapable == {Quote, Backslash, "/", "b", "f", "n", "r", "t"}

Unescape(c) ==
  IF c = "n" THEN "\n" ELSE IF c = "t" THEN "\t" ELSE IF c = "r" THEN "\r" ELSE c

\* the string whose opening quote is before position j
RECURSIVE ScanString(_, _, _)
ScanString(s, j, acc) ==
  IF j > Len(s) THEN ParseFail
  ELSE IF s[j] = Quote THEN ParseOk([t |-> "string", s |-> acc], j + 1)
  ELSE IF s[j] = Backslash
  THEN IF j + 1 <= Len(s) /\ s[j + 1] \in Escapable
       THEN ScanString(s, j + 2, Append(acc, Unescape(s[j + 1])))
       ELSE ParseFail
  ELSE IF s[j] \in {"\n", "\t", "\r"} THEN ParseFail
  ELSE ScanString(s, j + 1, Append(acc, s[j]))

RECURSIVE ScanDigits(_, _)
ScanDigits(s, j) ==
  IF j <= Len(s) /\ s[j] \in Digits THEN ScanDigits(s, j + 1) ELSE j

StartsWithAt(s, i, w) ==
  i + Len(w) - 1 <= Len(s) /\ SubSeq(s, i, i + Len(w) - 1) = w

RECURSIVE ParseValue(_, _)
RECURSIVE ParseElements(_, _, _)
RECURSIVE ParseMembers(_, _, _, _)

ParseValue(s, i0) ==
  LET i == SkipWs(s, i0)
  IN  IF i > Len(s) THEN ParseFail
      ELSE IF s[i] = Quote THEN ScanString(s, i + 1, <<>>)
      ELSE IF s[i] = "{"
      THEN LET j == SkipWs(s, i + 1)
           IN  IF j <= Len(s) /\ s[j] = "}"
               THEN ParseOk([t |-> "object", keys |-> <<>>, vals |-> <<>>], j + 1)
               ELSE ParseMembers(s, j, <<>>, <<>>)
      ELSE IF s[i] = "["
      THEN LET j == SkipWs(s, i + 1)
           IN  IF j <= Len(s) /\ s[j] = "]"
               THEN ParseOk([t |-> "array", items |-> <<>>], j + 1)
               ELSE ParseElements(s, j, <<>>)
      ELSE IF s[i] \in Digits
      THEN LET j == ScanDigits(s, i)
           IN  IF s[i] = "0" /\ j > i + 1 THEN ParseFail
               ELSE ParseOk([t |-> "number", zero |-> (s[i] = "0")], j)
      ELSE IF StartsWithAt(s, i, << "n", "u", "l", "l" >>) THEN ParseOk([t |-> "null"], i + 4)
      ELSE IF StartsWithAt(s, i, << "t", "r", "u", "e" >>)
      THEN ParseOk([t |-> "boolean", b |-> TRUE], i + 4)
      ELSE IF StartsWithAt(s, i, << "f", "a", "l", "s", "e" >>)
      THEN ParseOk([t |-> "boolean", b |-> FALSE], i + 5)
      ELSE ParseFail

ParseElements(s, i, acc) ==
  LET v == ParseValue(s, i)
  IN  IF ~v.ok THEN ParseFail
      ELSE LET j == SkipWs(s, v.next)
           IN  IF j > Len(s) THEN ParseFail
               ELSE IF s[j] = "," THEN ParseElements(s, j + 1, Append(acc, v.val))
               ELSE IF s[j] = "]"
               THEN ParseOk([t |-> "array", items |-> Append(acc, v.val)], j + 1)
               ELSE ParseFail

ParseMembers(s, i, keys, vals) ==
  LET k0 == SkipWs(s, i)
  IN  IF k0 > Len(s) \/ s[k0] # Quote THEN ParseFail
      ELSE LET k == ScanString(s, k0 + 1, <<>>)
           IN  IF ~k.ok THEN ParseFail
               ELSE LET c == SkipWs(s, k.next)
                    IN  IF c > Len(s) \/ s[c] # ":" THEN ParseFail
                        ELSE LET v == ParseValue(s, c + 1)
                             IN  IF ~v.ok THEN ParseFail
                                 ELSE LET j == SkipWs(s, v.next)
                                          ks == Append(keys, k.val.s)
                                          vs == Append(vals, v.val)
                                      IN  IF j > Len(s) THEN ParseFail
                                          ELSE IF s[j] = ","
                                          THEN ParseMembers(s, j + 1, ks, vs)
                                          ELSE IF s[j] = "}"
                                          THEN ParseOk([t |-> "object", keys |-> ks,
                                                        vals |-> vs], j + 1)
                                          ELSE ParseFail

\* JSON.parse(text): ok tells whether it returns, val what it returns
JsonParse(text) ==
  LET v == ParseValue(text, 1)
  IN  IF v.ok /\ SkipWs(text, v.next) = Len(text) + 1
      THEN [ok |-> TRUE, val |-> v.val]
      ELSE [ok |-> FALSE, val |-> [t |-> "undefined"]]

\* sanitizeAndValidateJson(content): ok FALSE stands for null
sanitizeAndValidateJson(content) ==
  LET jsonMatch == JsonMatch(content)
      potentialJson == jsonMatch.text
  IN  IF ~jsonMatch.found THEN [ok |-> FALSE, json |-> <<>>]
      ELSE IF BraceCount(potentialJson, 1, 0, FALSE, "") # 0
      THEN [ok |-> FALSE, json |-> <<>>]
      ELSE IF ~JsonParse(potentialJson).ok THEN [ok |-> FALSE, json |-> <<>>]
      ELSE [ok |-> TRUE, json |-> potentialJson]

KeyCards == << "c", "a", "r", "d", "s" >>
KeyText == << "t", "e", "x", "t" >>
KeySnippets == << "s", "n", "i", "p", "p", "e", "t", "s" >>
KeyOptions == << "o", "p", "t", "i", "o", "n", "s" >>

Undefined == [t |-> "undefined"]

\* value.key of a decoded value that is neither null nor undefined
Property(value, key) ==
  IF value.t = "object" /\ \E j \in 1..Len(value.keys) : value.keys[j] = key
  THEN value.vals[CHOOSE j \in 1..Len(value.keys) :
                    /\ value.keys[j] = key
                    /\ \A m \in (j + 1)..Len(value.keys) : value.keys[m] # key]
  ELSE Undefined

\* JavaScript truthiness of a decoded value
JsTruthy(value) ==
  IF value.t \in {"undefined", "null"} THEN FALSE
  ELSE IF value.t = "boolean" THEN value.b
  ELSE IF value.t = "number" THEN ~value.zero
  ELSE IF value.t = "string" THEN value.s # <<>>
  ELSE TRUE

\* the texts of the cards in the reverse order
CardTextsReversed(cards) ==
  [j \in 1..Len(cards.items) |->
     Property(cards.items[Len(cards.items) + 1 - j], KeyText)]

\* parsed.cards.map(card => card.text)
CardTexts(cards) ==
  [j \in 1..Len(cards.items) |-> Property(cards.items[j], KeyText)]

Threw == [threw |-> TRUE]

\* the if / else if / else over parsed.cards and parsed.snippets: threw tells
\* that a TypeError or the Error of the last branch left the block
DecodeShape(parsed, count) ==
  LET cards == Property(parsed, KeyCards)
      legacy == Property(parsed, KeySnippets)
      opts == Property(parsed, KeyOptions)
  IN  IF JsTruthy(cards)
      THEN IF cards.t # "array" THEN Threw
           ELSE IF \E j \in 1..Len(cards.items) : cards.items[j].t = "null" THEN Threw
           ELSE IF ~JsTruthy(opts)
           THEN [threw |-> FALSE, snippets |-> Slice0(CardTexts(cards), count),
                 isArray |-> TRUE, options |-> <<>>]
           ELSE IF opts.t = "array"
           THEN [threw |-> FALSE, snippets |-> Slice0(CardTexts(cards), count),
                 isArray |-> TRUE, options |-> Slice0(opts.items, MaxOptions)]
           ELSE IF opts.t = "string"
           THEN [threw |-> FALSE, snippets |-> Slice0(CardTexts(cards), count),
                 isArray |-> TRUE, options |-> Slice0(opts.s, MaxOptions)]
           ELSE Threw
      ELSE IF JsTruthy(legacy)
      THEN IF legacy.t = "array"
           THEN [threw |-> FALSE, snippets |-> Slice0(legacy.items, count),
                 isArray |-> TRUE, options |-> <<>>]
           ELSE IF legacy.t = "string"
           THEN [threw |-> FALSE, snippets |-> Slice0(legacy.s, count),
                 isArray |-> FALSE, options |-> <<>>]
           ELSE Threw
      ELSE Threw

\* the try block that parses result.choices[0].message.content, with its
\* catch: from "provider" when the decoded content is the value, cached
\* when control reaches snippetCache.set
DecodeContent(content, topic, count, opt) ==
  LET sanitizedJson == sanitizeAndValidateJson(content)
      fallbackContent == getFallbackContent(topic, count, opt)
      shape == DecodeShape(JsonParse(sanitizedJson.json).val, count)
  IN  IF ~sanitizedJson.ok
      THEN [from |-> "fallback", cached |-> FALSE, isArray |-> TRUE,
            snippets |-> fallbackContent.snippets, options |-> fallbackContent.options]
      ELSE IF shape.threw
      THEN [from |-> "fallback", cached |-> TRUE, isArray |-> TRUE,
            snippets |-> fallbackContent.snippets,
            options |-> IF Truthy(opt) THEN fallbackContent.options ELSE <<>>]
      ELSE [from |-> "provider", cached |-> TRUE, isArray |-> shape.isArray,
            snippets |-> shape.snippets, options |-> shape.options]

(***************************************************************************)
(* Route handlers (server/routes.ts).                                      *)
(***************************************************************************)
\* server/routes.ts holds two registerRoutes: the first serves POST
\* /api/generate, the second POST /api/generate-content behind a zod schema
Routes == {"generate", "generate-content"}

Bodies(route) ==
  IF route = "generate"
  THEN {[topicIsStr |-> TRUE, topic |-> t, hasCount |-> FALSE, count |-> 0, prev |-> pv] :
          t \in TopicInputs \ {TopicAiBang}, pv \in BOOLEAN}
       \cup {[topicIsStr |-> FALSE, topic |-> <<>>, hasCount |-> FALSE, count |-> 0,
              prev |-> FALSE]}
  ELSE {[topicIsStr |-> TRUE, topic |-> t, hasCount |-> TRUE, count |-> c, prev |-> FALSE] :
          t \in TopicInputs \ {TopicAiBang}, c \in {MinCount - 1, MinCount, MaxCount + 1}}
       \cup {[topicIsStr |-> TRUE, topic |-> t, hasCount |-> FALSE, count |-> 0,
              prev |-> FALSE] : t \in TopicInputs}
       \cup {[topicIsStr |-> FALSE, topic |-> <<>>, hasCount |-> FALSE, count |-> 0,
              prev |-> FALSE]}

\* generateContentSchema.parse succeeds
SchemaAccepts(body) ==
  /\ body.topicIsStr
  /\ Len(body.topic) >= 1
  /\ Len(body.topic) <= MaxTopicLen
  /\ (body.hasCount => (body.count >= MinCount /\ body.count <= MaxCount))

\* a handler that answers 400 to a topic it has cached content for
AcceptsUncached(route, body) ==
  /\ ~(body.topic = <<>> \/ ~body.topicIsStr)
  /\ \A key \in DOMAIN snippetCache : key[1] # body.topic

\* the handler's own check of the body; FALSE answers 400
Accepts(route, body) ==
  IF route = "generate"
  THEN ~(body.topic = <<>> \/ ~body.topicIsStr)
  ELSE SchemaAccepts(body)

ArgTopic(route, body) ==
  IF route = "generate" THEN body.topic ELSE SanitizeTopic(body.topic)

ArgCount(route, body) ==
  IF route = "generate" THEN GenerateCount
  ELSE IF body.hasCount THEN body.count ELSE DefaultCount

\* third argument: previousSnippet for /api/generate, none for /api/generate-content
ArgOpt(route, body) ==
  IF route = "generate" /\ body.prev THEN "prev" ELSE "false"

\* what the handler sends once generateLearningSnippets has returned result
Respond(route, result) ==
  IF route = "generate" /\ ~result.isArray
  THEN [status |-> 500, snippets |-> <<>>, isArray |-> TRUE, options |-> <<>>]
  ELSE [status |-> 200, snippets |-> result.snippets, isArray |-> result.isArray,
        options |-> result.options]

Rejected == [status |-> 400, snippets |-> <<>>, isArray |-> TRUE, options |-> <<>>]

NoRequest == [pc |-> "none"]

\* the handler answered before calling generateLearningSnippets
NoResult == [snippets |-> <<>>, isArray |-> TRUE, options |-> <<>>, hasOptions |-> FALSE]

\* record of an answered request: result is what generateLearningSnippets
\* returned (called tells whether it ran), resp what the handler sent, calls
\* the number of provider calls this request issued (fetched: at least one)
Answered(route, body, result, resp, called, calls) ==
  [pc |-> "done", route |-> route, body |-> body,
   topic |-> ArgTopic(route, body), count |-> ArgCount(route, body),
   opt |-> ArgOpt(route, body), result |-> result, resp |-> resp,
   called |-> called, fetched |-> calls > 0, calls |-> calls]

\* a request that asks the provider a second time
ProviderCallTwice(r) == [r EXCEPT !.calls = @ + 2]

\* await fetch("https://openrouter.ai/api/v1/chat/completions", ...): the
\* request issues a provider call
ProviderCall(r) == [r EXCEPT !.calls = @ + 1]

\* a request arrives: handler and callee run up to the first await
Start(route, body) ==
  /\ route = deployed
  /\ LET topic == ArgTopic(route, body)
         count == ArgCount(route, body)
         opt == ArgOpt(route, body)
         call == BeginCall(topic, count, opt)
     IN  IF ~Accepts(route, body)
         THEN /\ last' = Answered(route, body, NoResult, Rejected, FALSE, 0)
              /\ req' = req
         ELSE IF call.act = "return"
         THEN /\ last' = Answered(route, body, call.result,
                                   Respond(route, call.result), TRUE, 0)
              /\ req' = req
         ELSE /\ Len(req) < NumProcs
              /\ req' = Append(req, ProviderCall(
                            [route |-> route, body |-> body, topic |-> topic,
                             count |-> count, opt |-> opt, calls |-> 0,
                             overdue |-> FALSE]))
              /\ last' = last
  /\ UNCHANGED <<snippetCache, apiKeySet, deployed, ttlElapsed>>
  /\ UNCHANGED feedVars
  /\ UNCHANGED otherVars

\* the sequence without its i-th element
RemoveAt(seq, i) == SubSeq(seq, 1, i - 1) \o SubSeq(seq, i + 1, Len(seq))

\* the fetch of the i-th waiting request settles with answer o; the rest of
\* the call and of the handler run to the response
Complete(i, o) ==
  /\ i \in 1..Len(req)
  /\ LET r == req[i]
         key == CacheKey(r.topic, r.count, r.opt)
         result == FinishCall(o, r.topic, r.count, r.opt)
     IN  /\ snippetCache' =
              IF WritesCache(o)
              THEN [k \in DOMAIN snippetCache \cup {key} |->
                      IF k = key THEN result ELSE snippetCache[k]]
              ELSE snippetCache
         /\ ttlElapsed' = IF WritesCache(o) THEN ttlElapsed \ {key} ELSE ttlElapsed
         /\ last' = Answered(r.route, r.body, result,
                              Respond(r.route, result), TRUE, r.calls)
  /\ req' = RemoveAt(req, i)
  /\ UNCHANGED <<apiKeySet, deployed>>
  /\ UNCHANGED feedVars
  /\ UNCHANGED otherVars

\* one TTL (an hour) passes since the entry of key was written
TtlElapse(key) ==
  /\ key \in DOMAIN snippetCache
  /\ key \notin ttlElapsed
  /\ ttlElapsed' = ttlElapsed \cup {key}
  /\ UNCHANGED <<snippetCache, apiKeySet, deployed, req, last>>
  /\ UNCHANGED feedVars
  /\ UNCHANGED otherVars

\* fifteen seconds (the hard timeout of part_013's withTimeout) pass since the
\* i-th waiting request issued its fetch; no timer races the fetch of
\* server/openai.ts, so the request goes on waiting
TimeoutElapse(i) ==
  /\ i \in 1..Len(req)
  /\ ~req[i].overdue
  /\ req' = [req EXCEPT ![i].overdue = TRUE]
  /\ UNCHANGED <<snippetCache, apiKeySet, deployed, last, ttlElapsed>>
  /\ UNCHANGED feedVars
  /\ UNCHANGED otherVars

InitServer ==
  /\ snippetCache = <<>>
  /\ apiKeySet \in BOOLEAN
  /\ deployed \in Routes
  /\ req = <<>>
  /\ last = NoRequest
  /\ ttlElapsed = {}

\* the two viewers whose feeds are observed
Viewers == {"viewerA", "viewerB"}

\* no library function applied yet
NoCall == [op |-> "none"]

\* the addresses requests come from
Ips == {"ipA", "ipB"}

\* the express app has answered nothing yet
NoResponse == [status |-> 0]

\* the express app right after registerRoutes
InitAppOff ==
  /\ hits = [ip \in Ips |-> 0]
  /\ reached = [ip \in Ips |-> 0]
  /\ sent = NoResponse

\* the tables right after the chat routes module loaded
InitTables ==
  /\ chats = <<>>
  /\ chatCards = <<>>
  /\ chatSent = NoResponse

\* the chat routes in development mode (no database)
InitChatOff ==
  /\ db = FALSE
  /\ openaiModule = "openai"
  /\ InitTables

\* no SwipeContainer with navigation mounted
InitSwipeOff ==
  /\ component = "SwipeContainer.tsx"
  /\ currentIndex = 0
  /\ showOptions = FALSE
  /\ currentOptions = <<>>
  /\ inFlight = <<>>
  /\ seenLength = 0

\* FocusFeed right after its useState calls, with no view in the URL
InitViewOff ==
  /\ currentView = "input"
  /\ currentTopic = <<>>
  /\ learningSnippets = <<>>
  /\ fetches = <<>>

\* SwipeContainer not mounted, no viewer, no library function applied
InitClientOff ==
  /\ allSnippets = <<>>
  /\ isLoading = FALSE
  /\ rounds = 0
  /\ viewerSnippets = [v \in Viewers |-> <<>>]
  /\ fn = NoCall

InitFeedOff ==
  /\ allSnippets = <<>>
  /\ isLoading = FALSE
  /\ rounds = 0
  /\ viewerSnippets = [v \in Viewers |-> <<>>]
  /\ fn = NoCall
  /\ InitAppOff
  /\ InitChatOff
  /\ InitSwipeOff
  /\ InitViewOff

Init == InitServer /\ InitFeedOff

Next ==
  \/ \E route \in Routes : \E body \in Bodies(route) : Start(route, body)
  \/ \E i \in Procs, o \in ProviderAnswers : Complete(i, o)

Spec == Init /\ [][Next]_vars

\* the server observed over more than one TTL
NextTtl ==
  \/ \E route \in Routes : \E body \in Bodies(route) : Start(route, body)
  \/ \E i \in Procs, o \in ProviderAnswers : Complete(i, o)
  \/ \E key \in DOMAIN snippetCache : TtlElapse(key)

SpecTtl == Init /\ [][NextTtl]_vars

\* the server observed while provider calls take their time
NextTimed ==
  \/ \E route \in Routes : \E body \in Bodies(route) : Start(route, body)
  \/ \E i \in Procs, o \in ProviderAnswers : Complete(i, o)
  \/ \E i \in Procs : TimeoutElapse(i)

SpecTimed == Init /\ [][NextTimed]_vars

(***************************************************************************)
(* The feed: generateMoreContent (client/src/components/SwipeContainer.tsx)*)
(***************************************************************************)
FeedTopic == TopicAi

\* what the fetch of POST /api/generate-content can settle with: a network
\* error, a non-ok status, a body without success/snippets, or a body whose
\* snippets are provider text or the server's fallback for the topic
FeedResponses ==
  {[k |-> "neterr"], [k |-> "status"], [k |-> "nosuccess"]}
  \cup {[k |-> "ok", snippets |-> l] : l \in ListsOver({Snip("p", <<>>, i, v) : i \in 1..PoolSize, v \in {0, 1}},
                                                     MaxCards)}
  \cup {[k |-> "ok", snippets |-> getFallbackContent(FeedTopic, ClientCount, "false").snippets]}

\* Array(5).fill(0).map((_, i) => `... ${topic} ... ${i + 1}`)
Placeholders(kind, topic) == [j \in 1..ClientCount |-> Snip(kind, topic, j, 1)]

\* new Set(allSnippets.map(s => s.toLowerCase().trim()))
ExistingContent(list) == {Normalize(list[j]) : j \in 1..Len(list)}

\* data.snippets.filter(snippet => !existingContent.has(snippet.toLowerCase().trim()))
UniqueSnippets(list, candidates) ==
  SelectSeq(candidates, LAMBDA c : Normalize(c) \notin ExistingContent(list))

\* the cards one settled fetch appends to the feed
Appended(list, topic, resp) ==
  IF resp.k = "neterr" THEN Placeholders("net", topic)
  ELSE IF resp.k \in {"status", "nosuccess"} THEN Placeholders("err", topic)
  ELSE IF Len(UniqueSnippets(list, resp.snippets)) = 0
  THEN Placeholders("more", topic)
  ELSE UniqueSnippets(list, resp.snippets)

\* generateMoreContent up to the await of fetch
MoreBegin ==
  /\ ~isLoading
  /\ rounds < MaxRounds
  /\ isLoading' = TRUE
  /\ UNCHANGED <<allSnippets, rounds>>
  /\ UNCHANGED serverVars
  /\ UNCHANGED otherVars

\* the fetch settles with resp: the rest of generateMoreContent
MoreEnd(resp) ==
  /\ isLoading
  /\ allSnippets' = allSnippets \o Appended(allSnippets, FeedTopic, resp)
  /\ isLoading' = FALSE
  /\ rounds' = rounds + 1
  /\ UNCHANGED serverVars
  /\ UNCHANGED otherVars

InitFeed ==
  /\ allSnippets \in {l \in {r.snippets : r \in {x \in FeedResponses : x.k = "ok"}} \ {<<>>} :
                          Cardinality(ExistingContent(l)) = Len(l)}
  /\ isLoading = FALSE
  /\ rounds = 0
  /\ viewerSnippets = [v \in Viewers |-> <<>>]
  /\ fn = NoCall
  /\ InitAppOff
  /\ InitChatOff
  /\ InitSwipeOff
  /\ InitViewOff

InitServerOff ==
  /\ snippetCache = <<>>
  /\ apiKeySet = TRUE
  /\ deployed = "generate-content"
  /\ req = <<>>
  /\ last = NoRequest
  /\ ttlElapsed = {}

NextFeed ==
  \/ MoreBegin
  \/ \E resp \in FeedResponses : MoreEnd(resp)

InitFeedMounted == InitFeed /\ InitServerOff

SpecFeed == InitFeedMounted /\ [][NextFeed]_vars

(***************************************************************************)
(* Two viewers on one topic: each has a SwipeContainer of its own, both    *)
(* post to the one server and so read the one snippetCache.                *)
(***************************************************************************)
\* body of the fetch in generateMoreContent: { topic, count: 5, ... }
FeedBody ==
  [topicIsStr |-> TRUE, topic |-> FeedTopic, hasCount |-> TRUE,
   count |-> ClientCount, prev |-> FALSE]

\* what the viewer's fetch settles with, given the handler's response:
\* data.snippets.filter throws on a value that is no array
FeedResponseOf(resp) ==
  IF resp.status # 200 THEN [k |-> "status"]
  ELSE IF ~resp.isArray THEN [k |-> "neterr"]
  ELSE [k |-> "ok", snippets |-> resp.snippets]

\* a seen-record kept once for all viewers
SeenByAnyone(v) ==
  LET RECURSIVE Concat(_)
      Concat(S) == IF S = {} THEN <<>>
                   ELSE LET w == CHOOSE x \in S : TRUE
                        IN  viewerSnippets[w] \o Concat(S \ {w})
  IN  viewerSnippets[v] \o Concat(Viewers \ {v})

\* the allSnippets state that viewer v's generateMoreContent reads
SeenBy(v) == viewerSnippets[v]

\* one generateMoreContent of viewer v, the server's handling of its request
\* included; o is what the provider answers if the server asks it
ViewerMore(v, o) ==
  /\ rounds < MaxRounds
  /\ deployed = "generate-content"
  /\ Accepts(deployed, FeedBody)
  /\ LET topic == ArgTopic(deployed, FeedBody)
         count == ArgCount(deployed, FeedBody)
         opt == ArgOpt(deployed, FeedBody)
         key == CacheKey(topic, count, opt)
         call == BeginCall(topic, count, opt)
         result == IF call.act = "return" THEN call.result
                   ELSE FinishCall(o, topic, count, opt)
         resp == Respond(deployed, result)
     IN  /\ snippetCache' =
              IF call.act = "fetch" /\ WritesCache(o)
              THEN [k \in DOMAIN snippetCache \cup {key} |->
                      IF k = key THEN result ELSE snippetCache[k]]
              ELSE snippetCache
         /\ viewerSnippets' =
              [viewerSnippets EXCEPT
                 ![v] = @ \o Appended(SeenBy(v), FeedTopic, FeedResponseOf(resp))]
  /\ rounds' = rounds + 1
  /\ UNCHANGED <<apiKeySet, deployed, req, last, ttlElapsed>>
  /\ UNCHANGED <<allSnippets, isLoading, fn, appVars, chatVars, clientVars>>

InitViewers == InitServerOff /\ InitFeedOff

NextViewers == \E v \in Viewers, o \in ProviderAnswers : ViewerMore(v, o)

SpecViewers == InitViewers /\ [][NextViewers]_vars

(***************************************************************************)
(* The library functions applied to inputs of their own: the sanitizer and *)
(* decoder of server/openai.ts on provider text, the fallback library, the *)
(* Gemini variant of generateLearningSnippets (its decoder and fallback),  *)
(* and the pages of POST /api/generate.                                    *)
(***************************************************************************)
MaxPages == 2        \* pages requested in a row for one topic

\* the fallback templates, each cut where ${topic} is spliced in
FallbackTemplates ==
  <<
     [pre |-> <<"Discover the fundamentals of ">>,
      post |-> <<" and why it matters in today's world.">>],
     [pre |-> <<"Key insight: ">>,
      post |-> <<" becomes more powerful when you understand its core principles.">>],
     [pre |-> <<"Practical tip: Start applying ">>,
      post |-> <<" concepts in small, real-world scenarios.">>],
     [pre |-> <<"Remember: Mastering ">>,
      post |-> <<" requires consistent practice and curiosity.">>],
     [pre |-> <<"Expert advice: Focus on the fundamentals of ">>,
      post |-> <<" before diving into advanced concepts.">>],
     [pre |-> <<"Did you know? ">>,
      post |-> <<" has fascinating applications across various industries.">>],
     [pre |-> <<"Pro tip: Break down ">>,
      post |-> <<" into smaller, manageable learning modules.">>],
     [pre |-> <<"Interesting fact: ">>,
      post |-> <<" connects multiple disciplines in unexpected ways.">>],
     [pre |-> <<"Tip: Use ">>,
      post |-> <<" to solve practical, everyday problems.">>],
     [pre |-> <<"Note: Understanding ">>,
      post |-> <<" can open doors to many opportunities.">>]
  >>

\* the text of fallback snippet j for topic: a sequence of template pieces
\* with the characters of the topic in between
FallbackText(j, topic) ==
  FallbackTemplates[j].pre \o topic \o FallbackTemplates[j].post

\* the fallback array of the Gemini variant's catch block
GeminiTemplates ==
  <<
     [pre |-> <<>>,
      post |-> <<": Learn the core idea and why it matters.">>],
     [pre |-> <<"Key insight: ">>,
      post |-> <<" works best when understood conceptually, not memorized.">>],
     [pre |-> <<"Practical tip: Apply ">>,
      post |-> <<" in small, real examples.">>],
     [pre |-> <<"Remember: Consistency beats intensity when learning ">>,
      post |-> <<".">>],
     [pre |-> <<"Expert advice: Focus on fundamentals before advanced ">>,
      post |-> <<" concepts.">>]
  >>

\* the array returned by the catch block of the Gemini variant
GeminiFallback(topic, count) ==
  [j \in 1..Len(GeminiTemplates) |->
     GeminiTemplates[j].pre \o topic \o GeminiTemplates[j].post]

\* the Gemini variant from result.response.text() on: text is the provider's
\* answer, or "timeout" when withTimeout rejected
GeminiSnippets(answer, topic, count) ==
  LET parsed == JsonParse(answer.text)
      legacy == Property(parsed.val, KeySnippets)
  IN  IF answer.k = "timeout" \/ answer.text = <<>> \/ ~parsed.ok
      THEN [from |-> "fallback", snippets |-> GeminiFallback(topic, count)]
      ELSE IF /\ parsed.val.t = "object"
              /\ \E j \in 1..Len(parsed.val.keys) : parsed.val.keys[j] = KeySnippets
              /\ legacy.t = "array"
      THEN [from |-> "provider", snippets |-> Slice0(legacy.items, count)]
      ELSE [from |-> "fallback", snippets |-> GeminiFallback(topic, count)]

\* /additional insights about .* - point \d+/i.test(content)
IsAdditionalInsights(snippet) == snippet.kind = "more"

\* validatedSnippets of POST /api/generate: stamp is the part of Date.now()
\* that the first six base-36 digits keep
ValidatedSnippets(snippets, topic, page, stamp) ==
  [j \in 1..Len(snippets) |->
     IF IsAdditionalInsights(snippets[j])
     THEN [kind |-> "unique", topic |-> topic, i |-> <<stamp, page % 5>>, v |-> 1]
     ELSE snippets[j]]

\* provider content: snippet texts, and their rendering as JSON
TextPlain == << "a" >>
TextBrace == << "b", "}" >>
TextQuote == << "q", Quote >>
EntryLists == ListsOver({TextPlain, TextBrace, TextQuote}, MaxCards)

RECURSIVE JsonEscape(_)
JsonEscape(chars) ==
  IF chars = <<>> THEN <<>>
  ELSE (IF Head(chars) \in {Quote, Backslash}
        THEN <<Backslash, Head(chars)>> ELSE <<Head(chars)>>)
       \o JsonEscape(Tail(chars))

JsonString(chars) == <<Quote>> \o JsonEscape(chars) \o <<Quote>>

RECURSIVE JoinComma(_)
JoinComma(parts) ==
  IF parts = <<>> THEN <<>>
  ELSE IF Len(parts) = 1 THEN parts[1]
  ELSE parts[1] \o <<",">> \o JoinComma(Tail(parts))

\* {"cards":[{"text":...},...]}
CardsJson(entries) ==
  <<"{">> \o JsonString(KeyCards) \o <<":", "[">>
    \o JoinComma([j \in 1..Len(entries) |->
         <<"{">> \o JsonString(KeyText) \o <<":">> \o JsonString(entries[j]) \o <<"}">>])
    \o <<"]", "}">>

\* {"snippets":[...]}
SnippetsJson(entries) ==
  <<"{">> \o JsonString(KeySnippets) \o <<":", "[">>
    \o JoinComma([j \in 1..Len(entries) |-> JsonString(entries[j])])
    \o <<"]", "}">>

\* what a model puts around its JSON: nothing, prose before it, a code fence
\* (written with tildes), prose with braces after it, a second object after it
Wraps == {"bare", "prose", "fence", "tailBrace", "tailObject"}

Wrap(w, json) ==
  IF w = "prose" THEN << "H", "i", ":", " " >> \o json
  ELSE IF w = "fence" THEN << "~", "~", "~", "\n" >> \o json \o << "\n", "~", "~", "~" >>
  ELSE IF w = "tailBrace" THEN json \o << " ", "{", "o", "k", "}" >>
  ELSE IF w = "tailObject" THEN json \o << "\n", "{", "\"", "x", "\"", ":", "1", "}" >>
  ELSE json

\* contents that are no JSON object of cards or snippets of strings: no
\* braces, unbalanced braces, no JSON, cards without text, entries that are
\* no strings, another key, an escaped backslash before a quote, an array
MalformedTexts ==
  {<< "n", "o", " ", "j", "s", "o", "n" >>,
   << "{" >>,
   << "}", "{" >>,
   << "{", "a", "}" >>,
   << "{", "\"", "c", "a", "r", "d", "s", "\"", ":", "[", "{", "}", "]", "}" >>,
   << "{", "\"", "c", "a", "r", "d", "s", "\"", ":", "[", "{", "\"", "t", "e", "x", "t", "\"", ":", "1", "}", "]", "}" >>,
   << "{", "\"", "c", "a", "r", "d", "s", "\"", ":", "[", "n", "u", "l", "l", "]", "}" >>,
   << "{", "\"", "c", "a", "r", "d", "s", "\"", ":", "\"", "a", "b", "\"", "}" >>,
   << "{", "\"", "s", "n", "i", "p", "p", "e", "t", "s", "\"", ":", "\"", "a", "b", "c", "\"", "}" >>,
   << "{", "\"", "s", "n", "i", "p", "p", "e", "t", "s", "\"", ":", "[", "1", ",", "2", "]", "}" >>,
   << "{", "\"", "s", "n", "i", "p", "p", "e", "t", "s", "\"", ":", "5", "}" >>,
   << "{", "\"", "o", "t", "h", "e", "r", "\"", ":", "1", "}" >>,
   << "{", "\"", "s", "n", "i", "p", "p", "e", "t", "s", "\"", ":", "[", "\"", "a", "\\", "\\", "\"", "]", "}" >>,
   << "[", "{", "\"", "s", "n", "i", "p", "p", "e", "t", "s", "\"", ":", "[", "\"", "a", "\"", "]", "}", "]" >>}

\* the provider contents the functions are applied to
ProviderTexts ==
  {[kind |-> "cards", entries |-> e, wrap |-> w, raw |-> Wrap(w, CardsJson(e))] :
      e \in EntryLists, w \in Wraps}
  \cup {[kind |-> "snippets", entries |-> e, wrap |-> w,
         raw |-> Wrap(w, SnippetsJson(e))] : e \in EntryLists, w \in Wraps}
  \cup {[kind |-> "other", entries |-> <<>>, wrap |-> "bare", raw |-> m] :
          m \in MalformedTexts}

LibCounts == {MinCount, DefaultCount}

TopicQuantumAi == << "q", "u", "a", "n", "t", "u", "m", " ", "a", "i" >>
TopicCats == << "c", "a", "t", "s" >>

OptionTopics ==
  {TopicAi, TopicQuantumAi, TopicCats,
   << "A", "I" >>,
   << "r", "a", "i", "n" >>,
   << "N", "e", "u", "r", "o", "s", "c", "i", "e", "n", "c", "e" >>,
   << "m", "a", "c", "h", "i", "n", "e", " ", "p", "h", "y", "s", "i", "c", "s" >>}

libUnchanged == <<snippetCache, apiKeySet, deployed, req, last, ttlElapsed,
                  allSnippets, isLoading, rounds, viewerSnippets, appVars,
                  chatVars, clientVars>>

\* sanitizeAndValidateJson applied to a provider content
ApplySanitize(inp) ==
  /\ fn = NoCall
  /\ fn' = [op |-> "sanitize", kind |-> inp.kind, entries |-> inp.entries,
            wrap |-> inp.wrap, raw |-> inp.raw,
            out |-> sanitizeAndValidateJson(inp.raw)]
  /\ UNCHANGED libUnchanged

\* the parsing block of generateLearningSnippets applied to a provider content
ApplyDecode(inp, count) ==
  /\ fn = NoCall
  /\ fn' = [op |-> "decode", kind |-> inp.kind, entries |-> inp.entries,
            wrap |-> inp.wrap, raw |-> inp.raw, count |-> count,
            json |-> sanitizeAndValidateJson(inp.raw),
            out |-> DecodeContent(inp.raw, FeedTopic, count, "false")]
  /\ UNCHANGED libUnchanged

\* the Gemini variant applied to a provider answer, or to a timeout
ApplyGemini(kind, inp, count) ==
  /\ fn = NoCall
  /\ fn' = [op |-> "gemini", kind |-> inp.kind, entries |-> inp.entries,
            wrap |-> inp.wrap, raw |-> inp.raw, count |-> count, answer |-> kind,
            topic |-> FeedTopic,
            out |-> GeminiSnippets([k |-> kind, text |-> inp.raw], FeedTopic, count)]
  /\ UNCHANGED libUnchanged

\* getFallbackContent applied to a topic and a count
ApplyFallback(topic, count) ==
  /\ fn = NoCall
  /\ fn' = [op |-> "fallback", topic |-> topic, count |-> count,
            out |-> [j \in 1..Len(getFallbackContent(topic, count, "false").snippets) |->
                       FallbackText(getFallbackContent(topic, count, "false").snippets[j].i,
                                    getFallbackContent(topic, count, "false").snippets[j].topic)]]
  /\ UNCHANGED libUnchanged

\* getFallbackContent applied to a topic with generateOptions true or false
ApplyFallbackOptions(topic, opt) ==
  /\ fn = NoCall
  /\ fn' = [op |-> "options", topic |-> topic, requested |-> Truthy(opt),
            out |-> getFallbackContent(topic, DefaultCount, opt)]
  /\ UNCHANGED libUnchanged

\* one more page of POST /api/generate for topic while no API key is set:
\* the snippets of the response's cards
FallbackPage(topic, stamp) ==
  /\ fn = NoCall \/ (fn.op = "pages" /\ fn.topic = topic)
  /\ LET pages == IF fn = NoCall THEN <<>> ELSE fn.pages
         page == Len(pages)
         result == getFallbackContent(topic, GenerateCount, "false")
     IN  /\ page < MaxPages
         /\ fn' = [op |-> "pages", topic |-> topic,
                   pages |-> Append(pages,
                               ValidatedSnippets(result.snippets, topic, page, stamp))]
  /\ UNCHANGED libUnchanged

\* the snippets of the response body: cards of validatedSnippets for
\* /api/generate, result.snippets for /api/generate-content of the first
\* registerRoutes, the callee's value for that of the second
ResponseSnippets(h, snippets, topic, page, stamp) ==
  IF h = "generate" THEN ValidatedSnippets(snippets, topic, page, stamp)
  ELSE snippets

\* handler h builds its response from result.snippets
ApplyRespond(h, snippets, page) ==
  /\ fn = NoCall
  /\ fn' = [op |-> "respond", handler |-> h, snippets |-> snippets,
            out |-> ResponseSnippets(h, snippets, TopicAi, page, 0)]
  /\ UNCHANGED libUnchanged

InitLib == InitServerOff /\ InitFeedOff

NextLib ==
  \/ \E inp \in ProviderTexts : ApplySanitize(inp)
  \/ \E inp \in ProviderTexts, count \in LibCounts : ApplyDecode(inp, count)
  \/ \E kind \in {"text", "timeout"}, inp \in ProviderTexts, count \in LibCounts :
       ApplyGemini(kind, inp, count)
  \/ \E topic \in TopicInputs, count \in MinCount..MaxCount : ApplyFallback(topic, count)
  \/ \E topic \in OptionTopics, opt \in {"true", "false"} :
       ApplyFallbackOptions(topic, opt)
  \/ \E topic \in TopicInputs \ {TopicEmpty}, stamp \in {0, 1} : FallbackPage(topic, stamp)
  \/ \E h \in {"generate", "generate-content-v1", "generate-content"}, snippets \in ListsOver(ProviderPool \cup {Snip("more", TopicAi, 1, v) : v \in {0, 1}},
                               MaxCards), page \in 0..MaxPages :
       ApplyRespond(h, snippets, page)

SpecLib == InitLib /\ [][NextLib]_vars

(***************************************************************************)
(* The express app of server/routes.ts: the limiter, the routing and the   *)
(* handlers, one request handled from arrival to response.                 *)
(***************************************************************************)
PathGenerate == "/api/generate"
PathGenerateContent == "/api/generate-content"
\* max of the limiter of the first registerRoutes, and of the second
LimiterMaxGenerate == 3
LimiterMaxApi == 100

\* requests of one address observed within one window
MaxHits == 4

\* app.use("/api/generate", limiter) mounts the limiter on that path and
\* the paths below it, which /api/generate-content is not;
\* app.use("/api/", limiter) mounts it on every API path
LimiterOn(path) ==
  IF deployed = "generate" THEN path = PathGenerate ELSE TRUE

LimiterMax ==
  IF deployed = "generate" THEN LimiterMaxGenerate ELSE LimiterMaxApi

\* the handler app.post registered for the path
HandlerOf(path) ==
  IF deployed = "generate"
  THEN IF path = PathGenerate THEN "generate" ELSE "generate-content-v1"
  ELSE IF path = PathGenerateContent THEN "generate-content" ELSE "none"

\* the first registerRoutes checks the body of both its handlers alike
HandlerRoute(h) == IF h = "generate-content" THEN "generate-content" ELSE "generate"

\* third argument: previousSnippet for /api/generate, undefined or none for
\* the /api/generate-content handlers
HandlerOpt(h, body) ==
  IF h = "generate" THEN ArgOpt("generate", body) ELSE "false"

\* a field that the response leaves out
Absent == "absent"

\* nextPrevious: result.continuationToken, a field that no result of
\* generateLearningSnippets has
NextPrevious(result) == Absent

\* bodies sent to a path
AppBodies(path) ==
  IF path = PathGenerate
  THEN {b \in Bodies("generate") : b.topic \in {TopicEmpty, TopicAi}}
  ELSE {b \in Bodies("generate-content") : ~b.hasCount /\ b.topic = TopicAi}

\* what the provider answers: no connection, a list of cards, or an object
\* whose cards are no array
AppAnswers ==
  {[k |-> "reject"]}
  \cup {o \in ObjectAnswers : o.cards = "array" /\ o.list = FullList /\ ~o.hasOpts}
  \cup {o \in ObjectAnswers : o.cards = "other"}

\* history: the request repeats the topic of the last response of
\* /api/generate and carries that response's nextPrevious as previousSnippet
\* (fetchSnippets of useLearningContent with pageParam = lastPage.nextPrevious)
IsFollowUp(path, body) ==
  /\ sent.status = 200
  /\ sent.path = PathGenerate
  /\ path = PathGenerate
  /\ body.topicIsStr
  /\ body.topic = sent.topic
  /\ body.prev = (sent.token # Absent)

AppResponse(ip, path, body, status, token, follow, generated) ==
  [status |-> status, path |-> path, topic |-> body.topic,
   token |-> token, follow |-> follow, generated |-> generated]

\* POST path with body from address ip: limiter, handler,
\* generateLearningSnippets (o is the provider's answer if it is asked) and
\* the response
Post(ip, path, body, o) ==
  /\ hits[ip] < MaxHits
  /\ reached[ip] < MaxHits
  /\ LET limited == LimiterOn(path)
         totalHits == hits[ip] + 1
         h == HandlerOf(path)
         follow == IsFollowUp(path, body)
         topic == ArgTopic(HandlerRoute(h), body)
         count == ArgCount(HandlerRoute(h), body)
         opt == HandlerOpt(h, body)
         key == CacheKey(topic, count, opt)
         call == BeginCall(topic, count, opt)
         result == IF call.act = "return" THEN call.result
                   ELSE FinishCall(o, topic, count, opt)
     IN  /\ hits' = IF limited THEN [hits EXCEPT ![ip] = totalHits] ELSE hits
         /\ IF limited /\ totalHits > LimiterMax
            THEN /\ sent' = AppResponse(ip, path, body, RateLimited, Absent, follow, FALSE)
                 /\ UNCHANGED <<reached, snippetCache>>
            ELSE IF h = "none"
            THEN /\ sent' = AppResponse(ip, path, body, 404, Absent, follow, FALSE)
                 /\ UNCHANGED <<reached, snippetCache>>
            ELSE /\ reached' = [reached EXCEPT ![ip] = @ + 1]
                 /\ IF ~Accepts(HandlerRoute(h), body)
                    THEN /\ sent' = AppResponse(ip, path, body, 400, Absent, follow, FALSE)
                         /\ UNCHANGED snippetCache
                    ELSE /\ snippetCache' =
                              IF call.act = "fetch" /\ WritesCache(o)
                              THEN [k \in DOMAIN snippetCache \cup {key} |->
                                      IF k = key THEN result ELSE snippetCache[k]]
                              ELSE snippetCache
                         /\ sent' = AppResponse(ip, path, body,
                                                Respond(HandlerRoute(h), result).status,
                                                NextPrevious(result), follow, TRUE)
  /\ UNCHANGED <<apiKeySet, deployed, req, last, ttlElapsed>>
  /\ UNCHANGED feedVars
  /\ UNCHANGED <<viewerSnippets, fn, chatVars, clientVars>>

\* windowMs (15 minutes) pass since the first counted request of ip: the
\* limiter starts a new window for it
WindowElapse(ip) ==
  /\ hits[ip] > 0 \/ reached[ip] > 0
  /\ hits' = [hits EXCEPT ![ip] = 0]
  /\ reached' = [reached EXCEPT ![ip] = 0]
  /\ UNCHANGED sent
  /\ UNCHANGED serverVars
  /\ UNCHANGED feedVars
  /\ UNCHANGED <<viewerSnippets, fn, chatVars, clientVars>>

InitApp ==
  /\ snippetCache = <<>>
  /\ apiKeySet = TRUE
  /\ deployed \in Routes
  /\ req = <<>>
  /\ last = NoRequest
  /\ ttlElapsed = {}
  /\ InitFeedOff

NextApp ==
  \/ \E ip \in Ips, path \in {PathGenerate, PathGenerateContent} : \E body \in AppBodies(path) :
       \E o \in AppAnswers : Post(ip, path, body, o)
  \/ \E ip \in Ips : WindowElapse(ip)

SpecApp == InitApp /\ [][NextApp]_vars

(***************************************************************************)
(* The chat routes (src/unnamed/part_010).                                 *)
(***************************************************************************)
\* req.user is undefined for a caller that did not authenticate
Anonymous == "anonymous"
Callers == {"userA", "userB", Anonymous}

ChatIds == {"chat1", "chat2"}

\* rows the table chat_cards holds at most in the runs observed
MaxChatRows == 6

\* what the provider answers the Gemini variant: a list of one snippet, or
\* nothing within the timeout
GeminiAnswers ==
  {[k |-> "text", text |-> SnippetsJson(<<TextPlain>>)],
   [k |-> "timeout", text |-> <<>>]}

ChatResponse(caller, chatId, status, stored) ==
  [status |-> status, caller |-> caller, chatId |-> chatId, stored |-> stored]

\* POST /api/chats by caller
CreateChat(caller) ==
  /\ IF caller = Anonymous
     THEN /\ chatSent' = ChatResponse(caller, Absent, 401, 0)
          /\ UNCHANGED chats
     ELSE IF ~db
     THEN /\ chatSent' = ChatResponse(caller, Absent, 201, 0)
          /\ UNCHANGED chats
     ELSE /\ \E id \in ChatIds \ DOMAIN chats :
               chats' = [c \in DOMAIN chats \cup {id} |->
                           IF c = id THEN caller ELSE chats[c]]
          /\ chatSent' = ChatResponse(caller, Absent, 201, 0)
  /\ UNCHANGED <<db, openaiModule, chatCards>>
  /\ UNCHANGED serverVars
  /\ UNCHANGED feedVars
  /\ UNCHANGED <<viewerSnippets, fn, appVars, clientVars>>

\* what generateLearningSnippets(topic, count) returns to the chat route:
\* the {snippets, options} object of server/openai.ts, which for...of cannot
\* iterate, or the array of strings of the Gemini variant
ChatCallee(o, g) ==
  IF openaiModule = "openai"
  THEN LET call == BeginCall(FeedTopic, DefaultCount, "false")
       IN  [iterable |-> FALSE, list |-> <<>>,
            result |-> IF call.act = "return" THEN call.result
                       ELSE FinishCall(o, FeedTopic, DefaultCount, "false"),
            writes |-> call.act = "fetch" /\ WritesCache(o)]
  ELSE [iterable |-> TRUE,
        list |-> GeminiSnippets(g, FeedTopic, DefaultCount).snippets,
        result |-> NoResult, writes |-> FALSE]

\* POST /api/generate-content of the chat routes by caller, with a valid
\* topic and chatId (Absent: no chatId in the body); o and g are the
\* provider's answers to the two variants of generateLearningSnippets
GenerateForChat(caller, chatId, o, g) ==
  /\ LET value == ChatCallee(o, g)
         key == CacheKey(FeedTopic, DefaultCount, "false")
         rows == [j \in 1..Len(value.list) |->
                    [chatId |-> chatId, content |-> value.list[j]]]
     IN  /\ snippetCache' =
              IF value.writes
              THEN [k \in DOMAIN snippetCache \cup {key} |->
                      IF k = key THEN value.result ELSE snippetCache[k]]
              ELSE snippetCache
         /\ IF chatId # Absent /\ db
            THEN IF chatId \notin DOMAIN chats
                 THEN /\ chatSent' = ChatResponse(caller, chatId, 404, 0)
                      /\ UNCHANGED chatCards
                 ELSE IF ~value.iterable
                 THEN /\ chatSent' = ChatResponse(caller, chatId, 500, 0)
                      /\ UNCHANGED chatCards
                 ELSE /\ Len(chatCards) + Len(rows) <= MaxChatRows
                      /\ chatCards' = chatCards \o rows
                      /\ chatSent' = ChatResponse(caller, chatId, 200, Len(rows))
            ELSE /\ chatSent' = ChatResponse(caller, chatId, 200, 0)
                 /\ UNCHANGED chatCards
  /\ UNCHANGED <<db, openaiModule, chats>>
  /\ UNCHANGED <<apiKeySet, deployed, req, last, ttlElapsed>>
  /\ UNCHANGED feedVars
  /\ UNCHANGED <<viewerSnippets, fn, appVars, clientVars>>

InitChat ==
  /\ InitServerOff
  /\ InitClientOff
  /\ InitAppOff
  /\ db \in BOOLEAN
  /\ openaiModule \in {"openai", "gemini"}
  /\ InitTables
  /\ InitSwipeOff
  /\ InitViewOff

NextChat ==
  \/ \E caller \in Callers : CreateChat(caller)
  \/ \E caller \in Callers, chatId \in ChatIds \cup {"chat0", Absent} :
       \E o \in AppAnswers, g \in GeminiAnswers : GenerateForChat(caller, chatId, o, g)

SpecChat == InitChat /\ [][NextChat]_vars

(***************************************************************************)
(* SwipeContainer with its navigation: client/src/components/              *)
(* SwipeContainer.tsx, src/unnamed/part_001 (options card, sub-topics) and *)
(* src/unnamed/part_002.  Every event handler runs with the closures of    *)
(* the latest render.                                                      *)
(***************************************************************************)
\* the number NaN: (n % 0) in JavaScript; no comparison with it holds
NaN == -1000

JsMod(a, n) == IF a = NaN \/ n = 0 THEN NaN ELSE a % n

JsGe(a, b) == a # NaN /\ a >= b

\* n cards that the feed list does not hold yet
Batch(list, n) == [j \in 1..n |-> Snip("card", FeedTopic, Len(list) + j, 0)]

\* lengths of the snippets prop, and of the list in a response
InitialSizes == {0, ClientCount, GenerateCount}
\* what a content fetch of the feed settles with: a network error, a non-ok
\* status, a body without cards (success/snippets), or n cards with nopts options
SwipeResponses ==
  {[k |-> kind, n |-> 0, nopts |-> 0] : kind \in {"neterr", "status", "nosuccess"}}
  \cup {[k |-> "ok", n |-> n, nopts |-> o] : n \in {0, 1, ClientCount}, o \in {0, MaxOptions}}

\* requests the feed starts in the runs observed
RequestBudget == rounds + Len(inFlight) < MaxRounds

\* generateMoreContent() reaches its fetch
MoreStarts == ~isLoading

\* generateMoreContent() up to the await of fetch; via tells what called it
CallGenerateMore(via) ==
  IF MoreStarts
  THEN /\ isLoading' = TRUE
       /\ inFlight' = Append(inFlight, [kind |-> "more", via |-> via, len |-> seenLength])
       /\ seenLength' = IF component = "part_001" /\ ~isLoading
                        THEN Len(allSnippets) ELSE seenLength
  ELSE UNCHANGED <<isLoading, inFlight, seenLength>>

\* nextCard: a swipe up, ArrowDown or the space key
NextCard ==
  /\ (MoreStarts /\ JsGe(currentIndex, Len(allSnippets) - 3)) => RequestBudget
  /\ IF component = "part_001" /\ showOptions
     THEN /\ showOptions' = FALSE
          /\ UNCHANGED <<currentIndex, isLoading, inFlight, seenLength>>
     ELSE IF component = "part_001" /\ currentIndex = 9 /\ Len(allSnippets) = 10
     THEN /\ showOptions' = TRUE
          /\ UNCHANGED <<currentIndex, isLoading, inFlight, seenLength>>
     ELSE /\ currentIndex' = JsMod(IF currentIndex = NaN THEN NaN ELSE currentIndex + 1,
                                      Len(allSnippets))
          /\ IF JsGe(currentIndex, Len(allSnippets) - 3)
             THEN CallGenerateMore("next")
             ELSE UNCHANGED <<isLoading, inFlight, seenLength>>
          /\ UNCHANGED showOptions
  /\ UNCHANGED <<component, currentOptions, allSnippets, rounds>>
  /\ UNCHANGED serverVars
  /\ UNCHANGED <<viewerSnippets, fn, appVars, chatVars, viewVars>>

\* previousCard: a swipe down or ArrowUp
PreviousCard ==
  /\ IF component = "part_001" /\ showOptions
     THEN /\ showOptions' = FALSE
          /\ currentIndex' = Len(allSnippets) - 1
     ELSE /\ currentIndex' = IF currentIndex # NaN /\ currentIndex > 0 THEN currentIndex - 1
                             ELSE Len(allSnippets) - 1
          /\ UNCHANGED showOptions
  /\ UNCHANGED <<component, currentOptions, inFlight, seenLength>>
  /\ UNCHANGED feedVars
  /\ UNCHANGED serverVars
  /\ UNCHANGED <<viewerSnippets, fn, appVars, chatVars, viewVars>>

\* onGenerateMore of the options card (part_001)
ChooseGenerateMore ==
  /\ component = "part_001"
  /\ showOptions
  /\ Len(allSnippets) > 0
  /\ MoreStarts => RequestBudget
  /\ showOptions' = FALSE
  /\ CallGenerateMore("button")
  /\ UNCHANGED <<component, currentIndex, currentOptions, allSnippets, rounds>>
  /\ UNCHANGED serverVars
  /\ UNCHANGED <<viewerSnippets, fn, appVars, chatVars, viewVars>>

\* handleOptionSelect of the options card (part_001):
\* generateMoreContentWithSubtopic up to the await of fetch
SelectOption ==
  /\ component = "part_001"
  /\ showOptions
  /\ Len(allSnippets) > 0
  /\ Len(currentOptions) > 0
  /\ RequestBudget
  /\ showOptions' = FALSE
  /\ isLoading' = TRUE
  /\ inFlight' = Append(inFlight, [kind |-> "subtopic", via |-> "option",
                                   len |-> seenLength])
  /\ seenLength' = IF ~isLoading THEN Len(allSnippets) ELSE seenLength
  /\ UNCHANGED <<component, currentIndex, currentOptions, allSnippets, rounds>>
  /\ UNCHANGED serverVars
  /\ UNCHANGED <<viewerSnippets, fn, appVars, chatVars, viewVars>>

\* the fetch of the i-th request in flight settles with resp: the rest of
\* generateMoreContent or generateMoreContentWithSubtopic
SettleMore(i, resp) ==
  /\ i \in 1..Len(inFlight)
  /\ LET r == inFlight[i]
     IN  IF component = "SwipeContainer.tsx"
         THEN /\ allSnippets' =
                   allSnippets \o Appended(allSnippets, FeedTopic,
                                            IF resp.k = "ok"
                                            THEN [k |-> "ok",
                                                  snippets |-> Batch(allSnippets, resp.n)]
                                            ELSE [k |-> resp.k])
              /\ UNCHANGED <<showOptions, currentOptions>>
         ELSE IF resp.k # "ok"
         THEN UNCHANGED <<allSnippets, showOptions, currentOptions>>
         ELSE IF component = "part_001" /\ r.kind = "more" /\ r.len = 10
         THEN /\ currentOptions' = ProviderOptions(resp.nopts)
              /\ showOptions' = TRUE
              /\ UNCHANGED allSnippets
         ELSE /\ allSnippets' = allSnippets \o Batch(allSnippets, resp.n)
              /\ showOptions' = IF r.kind = "subtopic" THEN FALSE ELSE showOptions
              /\ UNCHANGED currentOptions
  /\ isLoading' = FALSE
  /\ inFlight' = RemoveAt(inFlight, i)
  /\ rounds' = rounds + 1
  /\ seenLength' = IF component = "part_001" /\ isLoading
                   THEN Len(allSnippets') ELSE seenLength
  /\ UNCHANGED <<component, currentIndex>>
  /\ UNCHANGED serverVars
  /\ UNCHANGED <<viewerSnippets, fn, appVars, chatVars, viewVars>>

\* the parent hands over a new snippets array of n cards, with a new topic
\* or with the same one: the effects on [snippets] and on [topic, snippets]
ReplaceSnippets(n, topicChanged) ==
  /\ allSnippets' = Batch(<<>>, n)
  /\ currentIndex' = IF component = "part_002" THEN currentIndex ELSE 0
  /\ seenLength' = IF component = "part_001" /\ topicChanged
                   THEN Len(allSnippets) ELSE seenLength
  /\ UNCHANGED <<component, showOptions, currentOptions, inFlight>>
  /\ UNCHANGED <<isLoading, rounds>>
  /\ UNCHANGED serverVars
  /\ UNCHANGED <<viewerSnippets, fn, appVars, chatVars, viewVars>>

InitSwipe ==
  /\ InitServerOff
  /\ component \in {"SwipeContainer.tsx", "part_001", "part_002"}
  /\ \E n \in InitialSizes :
       /\ allSnippets = Batch(<<>>, n)
       /\ seenLength = IF component = "part_001" THEN n ELSE 0
  /\ currentIndex = 0
  /\ showOptions = FALSE
  /\ currentOptions = <<>>
  /\ inFlight = <<>>
  /\ isLoading = FALSE
  /\ rounds = 0
  /\ viewerSnippets = [v \in Viewers |-> <<>>]
  /\ fn = NoCall
  /\ InitAppOff
  /\ InitChatOff
  /\ InitViewOff

NextSwipe ==
  \/ NextCard
  \/ PreviousCard
  \/ ChooseGenerateMore
  \/ SelectOption
  \/ \E i \in 1..MaxRounds, resp \in SwipeResponses : SettleMore(i, resp)
  \/ \E n \in InitialSizes, topicChanged \in BOOLEAN : ReplaceSnippets(n, topicChanged)

SpecSwipe == InitSwipe /\ [][NextSwipe]_vars

(***************************************************************************)
(* FocusFeed (client/src/components/FocusFeed.tsx): the view and its       *)
(* content fetches.                                                        *)
(***************************************************************************)
ViewTopics == {TopicAi, TopicCats}

\* content fetches of FocusFeed awaiting their response in the runs observed
MaxFetches == 3

\* length of [errorSnippet, ...DEMO_CONTENT["python basics"].slice(1)]
DemoCount == 6

\* what a fetch of POST /api/generate-content settles with: a network
\* error, a non-OK status, a body without success/snippets, or snippets
ViewResponses ==
  {[k |-> kind, snippets |-> <<>>] : kind \in {"neterr", "status", "nosuccess"}}
  \cup {[k |-> "ok", snippets |-> Batch(<<>>, n)] : n \in {0, ClientCount}}

viewUnchanged ==
  <<serverVars, feedVars, viewerSnippets, fn, appVars, chatVars, swipeVars>>

\* handleTopicSubmit up to the await of fetch
TopicSubmit(topic) ==
  /\ currentView = "input"
  /\ Len(fetches) < MaxFetches
  /\ currentTopic' = topic
  /\ currentView' = "loading"
  /\ fetches' = Append(fetches, [kind |-> "submit", topic |-> topic])
  /\ UNCHANGED learningSnippets
  /\ UNCHANGED viewUnchanged

\* handleTopicChange up to the await of fetch
TopicChange(newTopic) ==
  /\ currentView = "learning"
  /\ Len(fetches) < MaxFetches
  /\ currentTopic' = newTopic
  /\ currentView' = "loading"
  /\ fetches' = Append(fetches, [kind |-> "change", topic |-> newTopic])
  /\ UNCHANGED learningSnippets
  /\ UNCHANGED viewUnchanged

\* handleBack
Back ==
  /\ currentView = "learning"
  /\ currentView' = "input"
  /\ currentTopic' = <<>>
  /\ learningSnippets' = <<>>
  /\ UNCHANGED fetches
  /\ UNCHANGED viewUnchanged

\* handlePopState: the browser's back or forward button lands on a history
\* entry whose state names the learning view of topic, or another view
PopState(view, topic) ==
  /\ IF view = "learning"
     THEN /\ currentView' = "learning"
          /\ currentTopic' = topic
     ELSE /\ currentView' = "input"
          /\ UNCHANGED currentTopic
  /\ UNCHANGED <<learningSnippets, fetches>>
  /\ UNCHANGED viewUnchanged

\* the rest of fetchContent, handleTopicSubmit or handleTopicChange once the
\* fetch of the i-th pending request settled with resp
SettleView(i, resp) ==
  /\ i \in 1..Len(fetches)
  /\ LET f == fetches[i]
     IN  IF resp.k = "ok"
         THEN /\ learningSnippets' = resp.snippets
              /\ currentView' = "learning"
         ELSE IF f.kind = "submit"
         THEN /\ learningSnippets' = [j \in 1..DemoCount |-> Snip("demo", <<>>, j, 0)]
              /\ currentView' = "learning"
         ELSE IF f.kind = "change" \/ resp.k = "neterr"
         THEN /\ currentView' = "input"
              /\ UNCHANGED learningSnippets
         ELSE UNCHANGED <<currentView, learningSnippets>>
  /\ fetches' = RemoveAt(fetches, i)
  /\ UNCHANGED currentTopic
  /\ UNCHANGED viewUnchanged

\* FocusFeed mounted: with no view in the URL, or with view=learning and a
\* topic, which both mount effects restore, each with a fetch of its own
InitView ==
  /\ InitServerOff
  /\ InitClientOff
  /\ InitAppOff
  /\ InitChatOff
  /\ InitSwipeOff
  /\ \/ InitViewOff
     \/ \E topic \in ViewTopics :
          /\ currentView = "loading"
          /\ currentTopic = topic
          /\ learningSnippets = <<>>
          /\ fetches = << [kind |-> "restore", topic |-> topic],
                          [kind |-> "restore", topic |-> topic] >>

NextView ==
  \/ \E topic \in ViewTopics : TopicSubmit(topic)
  \/ \E newTopic \in ViewTopics : TopicChange(newTopic)
  \/ Back
  \/ \E view \in {"learning", "input"}, topic \in ViewTopics : PopState(view, topic)
  \/ \E i \in 1..MaxFetches, resp \in ViewResponses : SettleView(i, resp)

SpecView == InitView /\ [][NextView]_vars

(***************************************************************************)
(* Properties of the feed.                                                 *)
(***************************************************************************)
\* a card of content, as opposed to the notice of a failed request
IsContent(s) == s.kind \notin {"err", "net"}

\* C2: no two content cards delivered to the feed of one viewer on one topic
\* are the same snippet after trimming and lower-casing.
C2_NoRepeatDelivered ==
  \A i, j \in 1..Len(allSnippets) :
    (i # j /\ IsContent(allSnippets[i]) /\ IsContent(allSnippets[j]))
      => Normalize(allSnippets[i]) # Normalize(allSnippets[j])

\* C12: the replacement cards a viewer gets when every candidate of a batch
\* was already seen equal (after normalization) no card the viewer was given
\* before, replacement cards of an earlier all-duplicates round included.
C12_ReplacementIsFresh ==
  \A i, j \in 1..Len(allSnippets) :
    (i < j /\ allSnippets[j].kind = "more")
      => Normalize(allSnippets[i]) # Normalize(allSnippets[j])

\* the key under which the server caches the batch of the viewers' requests
FeedKey ==
  CacheKey(ArgTopic("generate-content", FeedBody), ArgCount("generate-content", FeedBody),
           ArgOpt("generate-content", FeedBody))

\* the candidates of batch that viewer v has not been shown, in order
NotShownTo(v, batch) ==
  SelectSeq(batch, LAMBDA c :
    \A j \in 1..Len(viewerSnippets[v]) : Normalize(viewerSnippets[v][j]) # Normalize(c))

\* the cards a viewer gets out of the cached batch
FromCachedBatch(v) ==
  LET entry == snippetCache[FeedKey]
  IN  IF ~entry.isArray THEN Placeholders("net", FeedTopic)
      ELSE IF NotShownTo(v, entry.snippets) = <<>> THEN Placeholders("more", FeedTopic)
      ELSE NotShownTo(v, entry.snippets)

KeyOfReq(r) == <<r.topic, r.count, r.opt>>

\* the request is one the specification calls valid: a string topic that is
\* not empty after trimming, and a count (when the route takes one) in 1..10
ValidInput(r) ==
  /\ r.body.topicIsStr
  /\ Trim(r.body.topic) # <<>>
  /\ r.count >= MinCount /\ r.count <= MaxCount

\* a step in which a request is answered without waiting for the provider
AnsweredAtOnce == last' # last /\ req' = req

\* a step in which a request issues a provider call and starts to wait
IssuesFetch == Len(req') = Len(req) + 1

\* the request that started to wait in such a step
Newest == req'[Len(req')]

\* C1: two requests with the same cache key never wait for the provider at
\* the same time (single-flight: one upstream call per key in flight).
C1_SingleFlight ==
  \A p, q \in 1..Len(req) : p # q => KeyOfReq(req[p]) # KeyOfReq(req[q])

\* C3: every valid request is answered with exactly count snippets.
C3_ExactCount ==
  (last.pc = "done" /\ ValidInput(last))
    => (last.resp.status = 200 /\ Len(last.resp.snippets) = last.count)

\* C4: a request with valid input is never answered with an error.
C4_NoErrorForValid ==
  (last.pc = "done" /\ ValidInput(last)) => last.resp.status = 200

\* C5: a request with an empty or blank topic, or a count outside 1..10, is
\* answered 400 with no content and without a provider call.
C5_InvalidRejected ==
  (last.pc = "done" /\ ~ValidInput(last))
    => (last.resp.status = 400 /\ last.resp.snippets = <<>> /\ ~last.fetched)

\* C6: a request whose key has an unexpired cache entry issues no provider
\* call and is answered at once with that entry's content.
C6_CacheHitServed ==
  [][ /\ (IssuesFetch /\ KeyOfReq(Newest) \notin ttlElapsed)
           => KeyOfReq(Newest) \notin DOMAIN snippetCache
      /\ (/\ AnsweredAtOnce
          /\ last'.called
          /\ KeyOfReq(last') \in DOMAIN snippetCache
          /\ KeyOfReq(last') \notin ttlElapsed)
           => /\ ~last'.fetched
              /\ last'.result = snippetCache[KeyOfReq(last')]
    ]_vars

\* C6 witness: with the API key set, a request for a cached key has been
\* answered from the entry without a provider call.
C6_Witness ==
  /\ last.pc = "done" /\ last.called /\ ~last.fetched /\ apiKeySet
  /\ KeyOfReq(last) \in DOMAIN snippetCache
  /\ KeyOfReq(last) \notin ttlElapsed
  /\ Len(last.result.snippets) > 0
  /\ last.result = snippetCache[KeyOfReq(last)]
  /\ last.resp.status = 200
  /\ last.resp.snippets = last.result.snippets

\* C7: a request for a key whose entry's TTL has elapsed is not answered
\* from the cache (it is a miss and waits for a new provider call).
C7_ExpiredIsMiss ==
  [][ (AnsweredAtOnce /\ last'.called) => KeyOfReq(last') \notin ttlElapsed ]_vars

\* C8: the substitute (fallback) content of a failed generation is never
\* written to the cache.
C8_FailureNotCached ==
  \A k \in DOMAIN snippetCache :
    \A j \in 1..Len(snippetCache[k].snippets) :
      snippetCache[k].snippets[j].kind # "fb"

\* C9: an unexpired cache entry is never overwritten or modified.
C9_EntriesImmutable ==
  [][ \A k \in DOMAIN snippetCache :
        k \notin ttlElapsed
          => (k \in DOMAIN snippetCache' /\ snippetCache'[k] = snippetCache[k])
    ]_vars

\* C10: every cache entry holds at most as many snippets as the count of its key.
C10_EntryWithinCount ==
  \A k \in DOMAIN snippetCache : Len(snippetCache[k].snippets) <= k[2]

\* C10 witness: an entry of provider text was written for the smallest count
\* and is full.
C10_Witness ==
  \E k \in DOMAIN snippetCache :
    /\ k[2] = MinCount
    /\ Len(snippetCache[k].snippets) = k[2]
    /\ snippetCache[k].snippets[1].kind = "p"

\* C13: a request issues at most one provider call: whatever the provider
\* answers (or fails to), the request ends with one call made, fallback
\* content included.
C13_OneProviderCall ==
  /\ \A i \in 1..Len(req) : req[i].calls <= 1
  /\ last.pc = "done" => last.calls <= 1

\* C13 witness: a request that called the provider once was answered with
\* fallback content after the call failed (nothing was cached for its key).
C13_Witness ==
  /\ last.pc = "done" /\ last.calls = 1
  /\ KeyOfReq(last) \notin DOMAIN snippetCache
  /\ Len(last.result.snippets) > 0
  /\ last.result.snippets[1].kind = "fb"
  /\ last.resp.status = 200

\* C14: no request is still waiting for the provider once the hard timeout
\* (15 s) of its provider call has passed.
C14_NoOverdueWait ==
  \A i \in 1..Len(req) : ~req[i].overdue

\* C18: every result handed to a caller, and every cached one, carries at
\* most 4 options; provider cards are passed on without error whether options
\* came with them (the first 4 are kept) or not (the result has none).
C18_OptionsAtMost4 ==
  /\ \A k \in DOMAIN snippetCache : Len(snippetCache[k].options) <= MaxOptions
  /\ last.pc = "done"
       => /\ Len(last.result.options) <= MaxOptions
          /\ Len(last.resp.options) <= MaxOptions
  /\ (/\ last.pc = "done" /\ last.fetched
      /\ Len(last.result.snippets) > 0
      /\ last.result.snippets[1].kind = "p")
       => /\ last.resp.status = 200
          /\ last.resp.snippets = last.result.snippets
          /\ \/ last.result.options = <<>>
             \/ last.result.options
                  = Slice0(ProviderOptions(MaxOptions + 1), MaxOptions)

\* C18 witness: the provider sent more than 4 options with its cards and the
\* caller got the first 4.
C18_Witness ==
  /\ last.pc = "done" /\ last.fetched
  /\ last.resp.status = 200
  /\ Len(last.result.options) = MaxOptions
  /\ last.result.options = Slice0(ProviderOptions(MaxOptions + 1), MaxOptions)
  /\ last.resp.options = last.result.options

(***************************************************************************)
(* Properties of the library functions.                                    *)
(***************************************************************************)
\* C15: parsing a provider content ends either in the malformed outcome that
\* fallback handles or in a list all of whose entries are strings.
C15_ListOfStringsOrMalformed ==
  fn.op = "decode"
    => \/ fn.out.from = "fallback"
       \/ /\ fn.out.isArray
          /\ \A j \in 1..Len(fn.out.snippets) : fn.out.snippets[j].t = "string"

\* the end of the brace-balanced region that starts at position i of s with
\* depth open braces, braces inside string literals not counted (0: none)
RECURSIVE BalancedEnd(_, _, _, _)
BalancedEnd(s, i, depth, inString) ==
  IF i > Len(s) THEN 0
  ELSE IF inString
  THEN IF s[i] = Backslash THEN BalancedEnd(s, i + 2, depth, TRUE)
       ELSE BalancedEnd(s, i + 1, depth, s[i] # Quote)
  ELSE IF s[i] = Quote THEN BalancedEnd(s, i + 1, depth, TRUE)
  ELSE IF s[i] = "{" THEN BalancedEnd(s, i + 1, depth + 1, FALSE)
  ELSE IF s[i] = "}"
  THEN IF depth = 1 THEN i ELSE BalancedEnd(s, i + 1, depth - 1, FALSE)
  ELSE BalancedEnd(s, i + 1, depth, FALSE)

\* the first brace-balanced region of raw
FirstBalancedRegion(raw) ==
  LET a == FirstIndexOf(raw, "{", 1)
      b == IF a = 0 THEN 0 ELSE BalancedEnd(raw, a, 0, FALSE)
  IN  IF a > 0 /\ b > 0
      THEN [found |-> TRUE, text |-> SubSeq(raw, a, b)]
      ELSE [found |-> FALSE, text |-> <<>>]

\* C16: when the first brace-balanced region of the raw text (braces inside
\* string literals not counted) is valid JSON, the sanitizer returns exactly
\* that region, whatever follows it.
C16_ExtractsFirstBalanced ==
  (/\ fn.op = "sanitize"
   /\ FirstBalancedRegion(fn.raw).found
   /\ JsonParse(FirstBalancedRegion(fn.raw).text).ok)
    => (fn.out.ok /\ fn.out.json = FirstBalancedRegion(fn.raw).text)

\* the first min(count, n) of the n texts, as decoded strings
ExpectedStrings(entries, count) ==
  Slice0([j \in 1..Len(entries) |-> [t |-> "string", s |-> entries[j]]], count)

C19_FallbackExactCount ==
  /\ fn.op = "fallback"
       => /\ Len(fn.out) = fn.count
          /\ \A j \in 1..Len(fn.out) : Includes(fn.out[j], fn.topic)
  /\ (fn.op = "gemini" /\ fn.out.from = "fallback")
       => /\ Len(fn.out.snippets) = fn.count
          /\ \A j \in 1..Len(fn.out.snippets) : Includes(fn.out.snippets[j], fn.topic)

\* C20: the fallback pages served for one topic hold no string twice, neither
\* within a page nor across pages.
C20_FallbackPagesDistinct ==
  fn.op = "pages"
    => \A p, q \in 1..Len(fn.pages) :
         \A i \in 1..Len(fn.pages[p]), j \in 1..Len(fn.pages[q]) :
           (p # q \/ i # j) => fn.pages[p][i] # fn.pages[q][j]

\* the categories in the order they are tried, each with its keywords
CategoryTable ==
  << [cat |-> "science", keywords |-> {Keywords.science, Keywords.biology, Keywords.neuroscience}],
     [cat |-> "physics", keywords |-> {Keywords.physics, Keywords.quantum}],
     [cat |-> "ai", keywords |-> {Keywords.ai, Keywords.artificial, Keywords.machine}] >>

\* category n has a keyword that occurs in the lower-cased topic
CategoryMatches(n, topic) ==
  \E w \in CategoryTable[n].keywords : Includes(ToLowerCase(topic), w)

\* the first category that matches, the generic one when none does
ExpectedCategory(topic) ==
  IF \E n \in 1..Len(CategoryTable) : CategoryMatches(n, topic)
  THEN CategoryTable[CHOOSE n \in 1..Len(CategoryTable) :
                       /\ CategoryMatches(n, topic)
                       /\ \A k \in 1..(n - 1) : ~CategoryMatches(k, topic)].cat
  ELSE "generic"

\* C21: with options requested the fallback library returns the 4 options of
\* the first category (science, physics, ai, in that order) one of whose
\* keywords occurs in the lower-cased topic, the generic 4 when none does; with
\* options not requested it returns none.
C21_FallbackOptionsByKeyword ==
  fn.op = "options"
    => IF fn.requested
       THEN /\ fn.out.hasOptions
            /\ Len(fn.out.options) = 4
            /\ \A j \in 1..4 :
                 /\ fn.out.options[j].kind = "fbopt"
                 /\ fn.out.options[j].cat = ExpectedCategory(fn.topic)
                 /\ fn.out.options[j].i = j
       ELSE ~fn.out.hasOptions /\ fn.out.options = <<>>

\* C21 witness: options were requested for "quantum ai", which has keywords
\* of two categories, and the physics options came back.
C21_Witness ==
  /\ fn.op = "options" /\ fn.requested
  /\ fn.topic = TopicQuantumAi
  /\ Len(fn.out.options) = 4
  /\ fn.out.options[1].cat = "physics"

\* C24: whenever generateLearningSnippets ran with generateOptions truthy, the
\* result it returned holds a non-empty list of options.
C24_OptionsWheneverRequested ==
  (last # NoRequest /\ last.called /\ Truthy(last.opt))
    => (last.result.hasOptions /\ last.result.options # <<>>)

\* C25: no snippet of a response of POST /api/generate or POST
\* /api/generate-content matches "additional insights about <topic> - point <n>".
C25_NoPlaceholderInResponse ==
  fn.op = "respond" => \A j \in 1..Len(fn.out) : ~IsAdditionalInsights(fn.out[j])

(***************************************************************************)
(* Properties of the express app.                                          *)
(***************************************************************************)
\* C22: a request that sends the nextPrevious of the last response back as
\* its cursor, for the same topic, is never answered 400.
C22_TokenRoundTripAccepted ==
  (sent # NoResponse /\ sent.follow) => sent.status # 400

\* C22 witness: a follow-up request with the (absent) token of the response
\* before it was handled and answered 200.
C22_Witness ==
  /\ sent # NoResponse
  /\ sent.follow
  /\ sent.generated
  /\ sent.status = 200

\* C23: within one window at most 3 generation requests of one address reach
\* a content-generation handler.
C23_AtMostThreePerWindow ==
  \A ip \in Ips : reached[ip] <= 3

(***************************************************************************)
(* Properties of the chat routes.                                          *)
(***************************************************************************)
\* C26: a generate-content request stores cards in a chat only when the chat
\* exists and belongs to the requesting user.
C26_CardsOnlyInOwnChat ==
  (chatSent # NoResponse /\ chatSent.stored > 0)
    => /\ chatSent.chatId \in DOMAIN chats
       /\ chats[chatSent.chatId] = chatSent.caller

(***************************************************************************)
(* Properties of SwipeContainer's navigation.                              *)
(***************************************************************************)
\* C27: at any time at most one content request of the feed is in flight.
C27_OneRequestInFlight == Len(inFlight) <= 1

\* C28: whenever the feed holds at least one snippet, the current card index
\* is an integer with 0 <= index < number of snippets.
C28_IndexInRange ==
  Len(allSnippets) >= 1 => currentIndex \in 0..(Len(allSnippets) - 1)

\* C30: when the fetch of a 'Generate More' chosen on the options card of a
\* 10-card feed succeeds with at least one card, the feed holds more than 10
\* cards, so that the viewer can advance to an 11th card.
C30_GenerateMoreExtendsFeed ==
  [][\A i \in 1..MaxRounds, resp \in SwipeResponses :
       (/\ component = "part_001"
        /\ i <= Len(inFlight)
        /\ inFlight[i].via = "button"
        /\ Len(allSnippets) = 10
        /\ resp.k = "ok"
        /\ resp.n > 0
        /\ SettleMore(i, resp)) => Len(allSnippets') > 10]_vars

(***************************************************************************)
(* Properties of FocusFeed.                                                *)
(***************************************************************************)
\* C29: the loading view is never permanent: once every content fetch has
\* settled, whatever its outcome, the view is "learning" or "input" (after
\* that, nothing the page does by itself leaves the loading view).
C29_LoadingOnlyWhileFetching ==
  fetches = <<>> => currentView \in {"learning", "input"}

=============================================================================
